---- MODULE Spec2Model ----
(***************************************************************************)
(* A model of the ANN2 layer (src/src/Layer.cpp) and of the loss family    *)
(* with its factory (src/experiments/loss.cpp).                            *)
(*                                                                         *)
(* Matrices are Armadillo matrices: a record of the row count, the column  *)
(* count and the entries.  Entries are integers, so every product, sum and *)
(* difference of the code is computed exactly.  An Armadillo size check    *)
(* that fails throws std::logic_error ("incompatible matrix dimensions");  *)
(* the model records that outcome as the error "ShapeMismatch".            *)
(***************************************************************************)
EXTENDS Integers, Sequences, FiniteSets, TLC

\* ------------------------------------------------------------------ bounds
\* Largest number of elements of a matrix handed in by a caller
\* (the weight matrix drawn by the constructor, X, E, y, y_fit).
MaxElems == 2
\* Largest number of forward/backward calls made on the one Layer.
MaxCalls == 3
\* Largest dHuber hyperparameter of a loss configuration.
MaxDHuber == 2

\* ---------------------------------------------------------------- matrices
\* the positions of an r x c matrix
Idx(r, c) == (1..r) \X (1..c)

\* arma::mat of size r x c with the entries e, a function on Idx(r, c)
Mat(r, c, e) == [nr |-> r, nc |-> c, d |-> e]

\* arma::mat default constructor: the 0 x 0 matrix
EmptyMat == [nr |-> 0, nc |-> 0, d |-> [p \in {} |-> 0]]

zeros(r, c) == Mat(r, c, [p \in Idx(r, c) |-> 0])

SameSize(A, B) == A.nr = B.nr /\ A.nc = B.nc

RECURSIVE SumSeq(_)
SumSeq(s) == IF Len(s) = 0 THEN 0 ELSE Head(s) + SumSeq(Tail(s))

\* accu(M): the sum of all entries (column-major order, as Armadillo stores them)
accu(M) ==
  SumSeq([k \in 1..(M.nr * M.nc) |->
            M.d[<<((k - 1) % M.nr) + 1, ((k - 1) \div M.nr) + 1>>]])

\* M.t()
Transpose(M) == Mat(M.nc, M.nr, [p \in Idx(M.nc, M.nr) |-> M.d[<<p[2], p[1]>>]])

\* the outcome of an expression that may throw
Ok(m) == [ok |-> TRUE, val |-> m]
Throw == [ok |-> FALSE, val |-> EmptyMat]

\* A * B: Armadillo checks A.n_cols = B.n_rows before it writes anything
MatMul(A, B) ==
  IF A.nc # B.nr THEN Throw
  ELSE Ok(Mat(A.nr, B.nc,
              [p \in Idx(A.nr, B.nc) |-> SumSeq([k \in 1..A.nc |-> A.d[<<p[1], k>>] * B.d[<<k, p[2]>>]])]))

\* A - B
MatSub(A, B) ==
  IF ~SameSize(A, B) THEN Throw
  ELSE Ok(Mat(A.nr, A.nc, [p \in Idx(A.nr, A.nc) |-> A.d[p] - B.d[p]]))

\* A % B, the elementwise (Schur) product
Schur(A, B) ==
  IF ~SameSize(A, B) THEN Throw
  ELSE Ok(Mat(A.nr, A.nc, [p \in Idx(A.nr, A.nc) |-> A.d[p] * B.d[p]]))

\* M.each_col() += v
EachColAdd(M, v) ==
  IF v.nr # M.nr \/ v.nc # 1 THEN Throw
  ELSE Ok(Mat(M.nr, M.nc, [p \in Idx(M.nr, M.nc) |-> M.d[p] + v.d[<<p[1], 1>>]]))

\* the shapes and the matrices a caller may hand in
Shapes(lo) ==
  {s \in (lo..MaxElems) \X (lo..MaxElems) : s[1] * s[2] <= MaxElems}

MatsOfShape(s, vals) ==
  {[nr |-> s[1], nc |-> s[2], d |-> f] : f \in [(1..s[1]) \X (1..s[2]) -> vals]}

Mats(lo, vals) == UNION {MatsOfShape(s, vals) : s \in Shapes(lo)}

\* ------------------------------------------------------------ collaborators
\* The Activation and Optimizer classes are declared in Layer.h and defined
\* outside the two files of this development; they are modelled from their
\* stated contracts (shape-preserving elementwise eval/grad; updateW/updateb
\* returning the new parameter of the old parameter's shape).

ActivTypes == {"linear", "relu"}

\* Activation::eval(Z): elementwise, shape-preserving
Activation_eval(gt, Zm) ==
  Mat(Zm.nr, Zm.nc,
      [p \in Idx(Zm.nr, Zm.nc) |-> IF gt = "relu" /\ Zm.d[p] < 0 THEN 0 ELSE Zm.d[p]])

\* Activation::grad(Z): the elementwise derivative at Z, shape-preserving
Activation_grad(gt, Zm) ==
  Mat(Zm.nr, Zm.nc,
      [p \in Idx(Zm.nr, Zm.nc) |-> IF gt = "relu" /\ Zm.d[p] <= 0 THEN 0 ELSE 1])

\* sum(D, 0): the row vector of column sums
ColSums(Dm) ==
  Mat(1, Dm.nc, [p \in Idx(1, Dm.nc) |-> SumSeq([k \in 1..Dm.nr |-> Dm.d[<<k, p[2]>>]])])

\* Optimizer::updateW(W, D, A_prev): a fixed-step gradient step of rate 1,
\* W - (A_prev * D).t()
updateW(Wm, Dm, Am) ==
  LET gW == MatMul(Am, Dm)
  IN  IF ~gW.ok THEN Throw ELSE MatSub(Wm, Transpose(gW.val))

\* Optimizer::updateb(b, D): b - sum(D, 0).t()
updateb(bm, Dm) == MatSub(bm, Transpose(ColSums(Dm)))

\* -------------------------------------------------------------------- Layer
VARIABLES
  constructed,  \* the Layer(int, int, List, List) constructor has run
  nodes_in,     \* the nodes_in_ the constructor was given
  n_nodes,      \* Layer::n_nodes
  W,            \* Layer::W, the weight matrix
  b,            \* Layer::b, the bias vector
  A_prev,       \* Layer::A_prev, the cached forward input
  Z,            \* Layer::Z, the cached pre-activation
  g,            \* Layer::g, the Activation ("null" before construction)
  O,            \* Layer::O, the Optimizer ("null" before construction)
  nCalls,       \* number of forward/backward calls made so far
  fwd,          \* what the most recent forward call was given: X, and W, b then
  last          \* the most recent call: its argument, outcome and effects

layerVars == <<constructed, nodes_in, n_nodes, W, b, A_prev, Z, g, O, nCalls, fwd, last>>

\* the state of loss.cpp, modelled further down
VARIABLES
  factory,   \* the lossFactory: its type string and its loss_param list
  lossObj,   \* the loss* createLoss last returned: the class, and its dHuber
  lcall      \* the most recent call on the factory or the loss, and its outcome

lossVars == <<factory, lossObj, lcall>>

vars == <<layerVars, lossVars>>

\* values the drawn weights, the inputs X and the incoming gradients E take
WVals == {-1, 1}
XVals == {0, 1}
EVals == {1}

NoCall ==
  [op |-> "none", arg |-> EmptyMat, err |-> "none", returned |-> FALSE,
   ret |-> EmptyMat, D |-> EmptyMat, updW |-> FALSE, updb |-> FALSE,
   optA |-> EmptyMat, preW |-> EmptyMat, preb |-> EmptyMat]

\* Layer::Layer(nodes_in_, nodes_out_, activ_param_, optim_param_).
\* Winit is the outcome of randn<mat>(nodes_out_, nodes_in_) / sqrt(nodes_in_).
\* The constructor tests neither dimension.
Construct(nodes_in_, nodes_out_, Winit, activ) ==
  /\ ~constructed
  /\ constructed' = TRUE
  /\ nodes_in' = nodes_in_
  /\ n_nodes' = nodes_out_
  /\ W' = Winit
  /\ b' = zeros(nodes_out_, 1)
  /\ O' = "optimizer"
  /\ g' = activ
  /\ last' = [NoCall EXCEPT !.op = "Layer"]
  /\ UNCHANGED <<A_prev, Z, nCalls, fwd, lossVars>>

\* line 33: A_prev = X
forward_A_prev(X, Aold) == X

\* lines 34-35: Z = W * X; Z.each_col() += b
forward_Z(Wm, X, bm) ==
  LET P == MatMul(Wm, X)
  IN  IF ~P.ok THEN Throw ELSE EachColAdd(P.val, bm)

\* line 36: return g->eval(Z)
forward_ret(gt, Zm) == Activation_eval(gt, Zm)

\* Layer::forward(X)
forward(X) ==
  /\ nCalls' = nCalls + 1
  /\ fwd' = [called |-> TRUE, X |-> X, W |-> W, b |-> b]
  /\ LET z == forward_Z(W, X, b)
     IN  /\ A_prev' = forward_A_prev(X, A_prev)
         /\ Z' = IF z.ok THEN z.val ELSE Z
         /\ last' = [NoCall EXCEPT
                       !.op = "forward", !.arg = X, !.preW = W, !.preb = b,
                       !.err = IF z.ok THEN "none" ELSE "ShapeMismatch",
                       !.returned = z.ok,
                       !.ret = IF z.ok THEN forward_ret(g, z.val) ELSE EmptyMat]
  /\ UNCHANGED <<constructed, nodes_in, n_nodes, W, b, g, O, lossVars>>

\* the elementwise product taken without the transpose
backward_D_noT(E, Zm, gt) == Schur(E, Activation_grad(gt, Zm))

\* line 41: mat D = E % g->grad(Z).t()
backward_D(E, Zm, gt) == Schur(E, Transpose(Activation_grad(gt, Zm)))

\* the Optimizer called, its result not assigned to W
backward_W_dropped(Wm, Dm, Am) ==
  IF updateW(Wm, Dm, Am).ok THEN Ok(Wm) ELSE Throw

\* line 42: W = O->updateW(W, D, A_prev)
backward_W(Wm, Dm, Am) == updateW(Wm, Dm, Am)

\* line 43: b = O->updateb(b, D)
backward_b(bm, Dm) == updateb(bm, Dm)

\* a return expression that reads the weights as they were on entry
backward_ret_preW(Dm, Wold, Wnew) == MatMul(Dm, Wold)

\* line 44: return D * W, evaluated after line 42 has assigned W
backward_ret(Dm, Wold, Wnew) == MatMul(Dm, Wnew)

\* Layer::backward(E).  The function tests neither that a forward call came
\* first nor the shape of E; what stops it is an Armadillo size check.
backward(E) ==
  /\ nCalls' = nCalls + 1
  /\ LET dD == backward_D(E, Z, g)
         nW == backward_W(W, dD.val, A_prev)
         Wn == IF dD.ok /\ nW.ok THEN nW.val ELSE W
         nb == backward_b(b, dD.val)
         bn == IF dD.ok /\ nW.ok /\ nb.ok THEN nb.val ELSE b
         r  == backward_ret(dD.val, W, Wn)
         ok == dD.ok /\ nW.ok /\ nb.ok /\ r.ok
     IN  /\ W' = Wn
         /\ b' = bn
         /\ last' = [NoCall EXCEPT
                       !.op = "backward", !.arg = E, !.preW = W, !.preb = b,
                       !.err = IF ok THEN "none" ELSE "ShapeMismatch",
                       !.returned = ok,
                       !.ret = IF ok THEN r.val ELSE EmptyMat,
                       !.D = IF dD.ok THEN dD.val ELSE EmptyMat,
                       !.updW = dD.ok,
                       !.optA = IF dD.ok THEN A_prev ELSE EmptyMat,
                       !.updb = dD.ok /\ nW.ok]
  /\ UNCHANGED <<constructed, nodes_in, n_nodes, A_prev, Z, g, O, fwd, lossVars>>

\* --------------------------------------------------------------- loss.cpp
\* the values targets y and predictions y_fit take
YVals == {0, 1}
YFitVals == {-2, 0, 1, 3}

\* the type strings of a configuration: the five names createLoss tests for,
\* and three it does not
Recognized == {"log", "squared", "absolute", "huber", "pseudoHuber"}
TypeNames == Recognized \cup {"bogus", "Huber", ""}

\* configurations: the type, and dHuber when the list names one
Configs ==
  [type : TypeNames, hasD : {TRUE}, dHuber : 0..MaxDHuber]
    \cup [type : TypeNames, hasD : {FALSE}, dHuber : {0}]

n_elem(M) == M.nr * M.nc

\* M(k), the k-th element in column-major order, k from 1
Lin(M, k) == M.d[<<((k - 1) % M.nr) + 1, ((k - 1) \div M.nr) + 1>>]

\* sign(x)
sign(x) == IF x > 0 THEN 1 ELSE IF x < 0 THEN -1 ELSE 0

\* abs(x)
abs(x) == IF x < 0 THEN -x ELSE x

\* a scalar accu(l) / n_rows, kept as the exact fraction num / den
Frac(n, dn) == [num |-> n, den |-> dn]

\* what a call that returned nothing leaves in the place of its value
NoValue == [none |-> TRUE]

\* the outcome of a call: a value, or the exception thrown
Value(v) == [ok |-> TRUE, err |-> "none", val |-> v]
Raise(e) == [ok |-> FALSE, err |-> e, val |-> NoValue]

\* lines 25-27: one entry of clamp(-log(v), DBL_MIN, DBL_MAX) for an integer v:
\* -log(0) is +inf and is cut to DBL_MAX; -log(v) <= 0 for v >= 1 and is
\* raised to DBL_MIN; log of a negative number is NaN, which clamp keeps.
ClampedNegLog(v) ==
  IF v = 0 THEN "DBL_MAX" ELSE IF v >= 1 THEN "DBL_MIN" ELSE "NaN"

\* logLoss::eval.  find(y == 1) yields linear indices into y; y_fit.elem()
\* checks each index against y_fit.n_elem only, never the two shapes.  The
\* sum of the clamped terms is kept as the number of terms of each kind.
logLoss_eval(y, y_fit) ==
  LET idx == {k \in 1..n_elem(y) : Lin(y, k) = 1}
      cnt(t) == Cardinality({k \in idx : ClampedNegLog(Lin(y_fit, k)) = t})
  IN  IF \E k \in idx : k > n_elem(y_fit) THEN Raise("IndexOutOfBounds")
      ELSE Value([nMax |-> cnt("DBL_MAX"), nMin |-> cnt("DBL_MIN"),
                  nNaN |-> cnt("NaN"), den |-> y.nr])

\* the outcome of a matrix expression as the outcome of the call
Lift(r) == IF r.ok THEN Value(r.val) ELSE Raise("ShapeMismatch")

\* logLoss::grad
logLoss_grad(y, y_fit) == Lift(MatSub(y_fit, y))

\* a mean taken over all elements instead of over the rows
squaredLoss_eval_by_elems(y, y_fit) ==
  LET E == MatSub(y_fit, y)
  IN  IF ~E.ok THEN Raise("ShapeMismatch")
      ELSE Value(Frac(accu(Mat(y.nr, y.nc, [p \in Idx(y.nr, y.nc) |-> E.val.d[p] * E.val.d[p]])),
                      n_elem(y)))

\* squaredLoss::eval
squaredLoss_eval(y, y_fit) ==
  LET E == MatSub(y_fit, y)
  IN  IF ~E.ok THEN Raise("ShapeMismatch")
      ELSE Value(Frac(accu(Mat(y.nr, y.nc, [p \in Idx(y.nr, y.nc) |-> E.val.d[p] * E.val.d[p]])),
                      y.nr))

\* squaredLoss::grad
squaredLoss_grad(y, y_fit) ==
  LET E == MatSub(y_fit, y)
  IN  IF ~E.ok THEN Raise("ShapeMismatch")
      ELSE Value(Mat(y_fit.nr, y_fit.nc, [p \in Idx(y_fit.nr, y_fit.nc) |-> 2 * E.val.d[p]]))

\* absoluteLoss::eval
absoluteLoss_eval(y, y_fit) ==
  LET E == MatSub(y_fit, y)
  IN  IF ~E.ok THEN Raise("ShapeMismatch")
      ELSE Value(Frac(accu(Mat(y_fit.nr, y_fit.nc, [p \in Idx(y_fit.nr, y_fit.nc) |-> abs(E.val.d[p])])),
                      y.nr))

\* absoluteLoss::grad
absoluteLoss_grad(y, y_fit) ==
  LET E == MatSub(y_fit, y)
  IN  IF ~E.ok THEN Raise("ShapeMismatch")
      ELSE Value(Mat(y_fit.nr, y_fit.nc, [p \in Idx(y_fit.nr, y_fit.nc) |-> sign(E.val.d[p])]))

\* huberLoss::eval.  The terms dHuber * (E - dHuber/2) and E^2 / 2 are halves
\* of integers: the fraction carries twice each term over twice the rows.
huberLoss_eval(dHuber, y, y_fit) ==
  LET S == MatSub(y_fit, y)
      l2(e) == IF e <= dHuber THEN e * e ELSE dHuber * (2 * e - dHuber)
  IN  IF ~S.ok THEN Raise("ShapeMismatch")
      ELSE Value(Frac(accu(Mat(y_fit.nr, y_fit.nc, [p \in Idx(y_fit.nr, y_fit.nc) |-> l2(abs(S.val.d[p]))])),
                      2 * y.nr))

\* the selection of the quadratic zone taken on E instead of abs(E)
huberLoss_grad_no_abs(dHuber, y, y_fit) ==
  LET E == MatSub(y_fit, y)
  IN  IF ~E.ok THEN Raise("ShapeMismatch")
      ELSE Value(Mat(y_fit.nr, y_fit.nc,
                     [p \in Idx(y_fit.nr, y_fit.nc) |-> IF E.val.d[p] <= dHuber
                                   THEN E.val.d[p]
                                   ELSE dHuber * sign(E.val.d[p])]))

\* huberLoss::grad: dl = dHuber * sign(E), then dl(iE) = E(iE) where
\* abs(E) <= dHuber
huberLoss_grad(dHuber, y, y_fit) ==
  LET E == MatSub(y_fit, y)
  IN  IF ~E.ok THEN Raise("ShapeMismatch")
      ELSE Value(Mat(y_fit.nr, y_fit.nc,
                     [p \in Idx(y_fit.nr, y_fit.nc) |-> IF abs(E.val.d[p]) <= dHuber
                                   THEN E.val.d[p]
                                   ELSE dHuber * sign(E.val.d[p])]))

\* pseudoHuberLoss::eval.  sqrt(1 + (E/dHuber)^2) - 1 is irrational in
\* general: each term is kept as the pair <<E, dHuber>> it is a function of.
pseudoHuberLoss_eval(dHuber, y, y_fit) ==
  LET E == MatSub(y_fit, y)
  IN  IF ~E.ok THEN Raise("ShapeMismatch")
      ELSE Value([terms |-> Mat(y_fit.nr, y_fit.nc, [p \in Idx(y_fit.nr, y_fit.nc) |-> <<E.val.d[p], dHuber>>]),
                  den |-> y.nr])

\* pseudoHuberLoss::grad: E % (1 / sqrt(1 + (E/dHuber)^2)), each entry kept as
\* the pair <<E, dHuber>> it is a function of
pseudoHuberLoss_grad(dHuber, y, y_fit) ==
  LET E == MatSub(y_fit, y)
  IN  IF ~E.ok THEN Raise("ShapeMismatch")
      ELSE Value(Mat(y_fit.nr, y_fit.nc, [p \in Idx(y_fit.nr, y_fit.nc) |-> <<E.val.d[p], dHuber>>]))

\* the virtual dispatch of eval on the loss object
loss_eval(obj, y, y_fit) ==
  CASE obj.class = "logLoss" -> logLoss_eval(y, y_fit)
    [] obj.class = "squaredLoss" -> squaredLoss_eval(y, y_fit)
    [] obj.class = "absoluteLoss" -> absoluteLoss_eval(y, y_fit)
    [] obj.class = "huberLoss" -> huberLoss_eval(obj.dHuber, y, y_fit)
    [] obj.class = "pseudoHuberLoss" -> pseudoHuberLoss_eval(obj.dHuber, y, y_fit)

\* the virtual dispatch of grad on the loss object
loss_grad(obj, y, y_fit) ==
  CASE obj.class = "logLoss" -> logLoss_grad(y, y_fit)
    [] obj.class = "squaredLoss" -> squaredLoss_grad(y, y_fit)
    [] obj.class = "absoluteLoss" -> absoluteLoss_grad(y, y_fit)
    [] obj.class = "huberLoss" -> huberLoss_grad(obj.dHuber, y, y_fit)
    [] obj.class = "pseudoHuberLoss" -> pseudoHuberLoss_grad(obj.dHuber, y, y_fit)

NoLossCall ==
  [op |-> "none", y |-> EmptyMat, y_fit |-> EmptyMat, err |-> "none",
   returned |-> FALSE, val |-> NoValue]

\* no Layer and no lossFactory constructed yet: every matrix is the empty
\* matrix of its default constructor
Init ==
  /\ constructed = FALSE
  /\ nodes_in = 0
  /\ n_nodes = 0
  /\ W = EmptyMat
  /\ b = EmptyMat
  /\ A_prev = EmptyMat
  /\ Z = EmptyMat
  /\ g = "null"
  /\ O = "null"
  /\ nCalls = 0
  /\ fwd = [called |-> FALSE, X |-> EmptyMat, W |-> EmptyMat, b |-> EmptyMat]
  /\ last = NoCall
  /\ factory = [made |-> FALSE, type |-> "", loss_param |-> [type |-> "", hasD |-> FALSE, dHuber |-> 0]]
  /\ lossObj = [class |-> "none", dHuber |-> 0]
  /\ lcall = NoLossCall

\* lossFactory::lossFactory(loss_param_)
NewFactory(loss_param_) ==
  /\ ~factory.made
  /\ factory' = [made |-> TRUE, type |-> loss_param_.type, loss_param |-> loss_param_]
  /\ lcall' = [NoLossCall EXCEPT !.op = "lossFactory"]
  /\ UNCHANGED <<lossObj, layerVars>>

\* the if / else-if chain of createLoss: the class constructed for the type,
\* "NULL" when no branch matches
createLoss_class(type) ==
  IF      type = "log"         THEN "logLoss"
  ELSE IF type = "squared"     THEN "squaredLoss"
  ELSE IF type = "absolute"    THEN "absoluteLoss"
  ELSE IF type = "huber"       THEN "huberLoss"
  ELSE IF type = "pseudoHuber" THEN "pseudoHuberLoss"
  ELSE                              "NULL"

\* lossFactory::createLoss().  The huberLoss and pseudoHuberLoss constructors
\* read loss_param_["dHuber"], which throws when the list has no such name.
createLoss ==
  /\ factory.made
  /\ LET c == createLoss_class(factory.type)
         needsD == c \in {"huberLoss", "pseudoHuberLoss"}
         thrown == needsD /\ ~factory.loss_param.hasD
     IN  /\ lossObj' = IF thrown THEN lossObj
                       ELSE [class |-> c,
                             dHuber |-> IF needsD THEN factory.loss_param.dHuber ELSE 0]
         /\ lcall' = [NoLossCall EXCEPT
                        !.op = "createLoss",
                        !.err = IF thrown THEN "index_out_of_bounds" ELSE "none",
                        !.returned = ~thrown]
  /\ UNCHANGED <<factory, layerVars>>

\* The loss objects hold no state a call changes, so the outcome of a call
\* does not depend on the calls before it: each object createLoss returns is
\* called once here, and createLoss may be called again.
Callable ==
  /\ lcall.op = "createLoss" /\ lcall.returned
  /\ lossObj.class \notin {"none", "NULL"}

\* loss::eval(y, y_fit) on the object createLoss returned
eval(y, y_fit) ==
  /\ LET r == loss_eval(lossObj, y, y_fit)
     IN  lcall' = [op |-> "eval", y |-> y, y_fit |-> y_fit, err |-> r.err,
                   returned |-> r.ok, val |-> r.val]
  /\ UNCHANGED <<factory, lossObj, layerVars>>

\* loss::grad(y, y_fit) on the object createLoss returned
grad(y, y_fit) ==
  /\ LET r == loss_grad(lossObj, y, y_fit)
     IN  lcall' = [op |-> "grad", y |-> y, y_fit |-> y_fit, err |-> r.err,
                   returned |-> r.ok, val |-> r.val]
  /\ UNCHANGED <<factory, lossObj, layerVars>>

\* the driver evaluates the loss on some targets and predictions
Eval ==
  /\ Callable
  /\ \E y \in Mats(1, YVals) : \E y_fit \in Mats(1, YFitVals) : eval(y, y_fit)

\* the driver takes the gradient of the loss on some targets and predictions
Grad ==
  /\ Callable
  /\ \E y \in Mats(1, YVals) : \E y_fit \in Mats(1, YFitVals) : grad(y, y_fit)

NextLoss ==
  \/ \E c \in Configs : NewFactory(c)
  \/ createLoss
  \/ Eval
  \/ Grad

\* the Layer exists and the driver has calls left
CanCall == constructed /\ nCalls < MaxCalls

\* the driver pushes some input, of any shape, through the Layer
Forward ==
  /\ CanCall
  /\ \E X \in Mats(1, XVals) \cup {EmptyMat} : forward(X)

\* the driver pushes some gradient, of any shape, back through the Layer
Backward ==
  /\ CanCall
  /\ \E E \in Mats(1, EVals) \cup {EmptyMat} : backward(E)

NextLayer ==
  \/ \E s \in Shapes(0) : \E Winit \in MatsOfShape(<<s[2], s[1]>>, WVals) :
       \E activ \in ActivTypes : Construct(s[1], s[2], Winit, activ)
  \/ Forward
  \/ Backward

\* the Layer, called by a driver in any order
SpecLayer == Init /\ [][NextLayer]_vars

\* the loss factory and the loss it creates
SpecLoss == Init /\ [][NextLoss]_vars

\* ------------------------------------------------------- claims on the Layer

\* the pre-activation the most recent forward call computes from its input
FwdZ == forward_Z(fwd.W, fwd.X, fwd.b)

\* C1: on a Layer (of positive dimensions) whose forward was never called,
\* backward(E) fails with an
\* OrderingError: it returns nothing, the Optimizer's updateW/updateb are not
\* invoked, and W and b are as they were.
C1_BackwardBeforeForward ==
  (last.op = "backward" /\ ~fwd.called /\ nodes_in >= 1 /\ n_nodes >= 1) =>
    /\ last.err = "OrderingError"
    /\ ~last.returned
    /\ ~last.updW /\ ~last.updb
    /\ W = last.preW /\ b = last.preb

\* C3: the propagated error backward returns is D * W with the W the
\* Optimizer's update of this same call produced, not the W on entry.
C3_ReturnUsesUpdatedW ==
  (last.op = "backward" /\ last.returned) =>
    /\ W = updateW(last.preW, last.D, A_prev).val
    /\ last.ret = MatMul(last.D, W).val

\* C3 witness: a backward call returned, and the updated and the entry weights
\* give different propagated errors.
C3_Witness ==
  /\ last.op = "backward" /\ last.returned
  /\ W # last.preW
  /\ last.ret # MatMul(last.D, last.preW).val

\* the Layer has positive dimensions and its most recent forward call was given
\* an X of shape (nodes_in x batch), batch >= 1, so Z is (nodes_out x batch)
ForwardDone ==
  /\ constructed /\ W.nr >= 1 /\ W.nc >= 1
  /\ fwd.called /\ fwd.X.nr = W.nc /\ fwd.X.nc >= 1

C5_BackwardUsesLatestForward ==
  (last.op = "backward" /\ last.updW /\ fwd.called /\ Z # EmptyMat) =>
    /\ last.optA = fwd.X
    /\ FwdZ.ok
    /\ Z = FwdZ.val
    /\ last.D = backward_D(last.arg, FwdZ.val, g).val

\* C6: forward leaves W and b as they were; after a backward call W is
\* Optimizer.updateW(W_before, D, A_prev) and b is Optimizer.updateb(b_before, D)
\* when the call reached the Optimizer, and otherwise both are as they were.
C6_OnlyOptimizerMutates ==
  /\ last.op = "forward" => (W = last.preW /\ b = last.preb)
  /\ last.op = "backward" =>
       LET uW == updateW(last.preW, last.D, A_prev)
           ub == updateb(last.preb, last.D)
       IN  /\ W = IF last.updW /\ uW.ok THEN uW.val ELSE last.preW
           /\ b = IF last.updb /\ ub.ok THEN ub.val ELSE last.preb
           /\ last.returned => (last.updW /\ last.updb /\ uW.ok /\ ub.ok)

\* C6 witness: a forward call that returned was followed by a backward call
\* that changed both W and b.
C6_Witness ==
  /\ last.op = "backward" /\ last.returned /\ fwd.called
  /\ W # last.preW /\ b # last.preb
  /\ fwd.W = last.preW /\ fwd.b = last.preb

\* C8: constructing a Layer with nodes_in <= 0 or nodes_out <= 0 fails with a
\* ConfigurationError: no Layer is produced, no Optimizer and no Activation.
C8_NonPositiveDimsRejected ==
  (last.op = "Layer" /\ (nodes_in <= 0 \/ n_nodes <= 0)) =>
    /\ last.err = "ConfigurationError"
    /\ ~constructed
    /\ O = "null" /\ g = "null"

\* ----------------------------------------------------- claims on the losses

\* the loss variant that matches a recognized type name
ClassOf(type) ==
  CASE type = "log" -> "logLoss"
    [] type = "squared" -> "squaredLoss"
    [] type = "absolute" -> "absoluteLoss"
    [] type = "huber" -> "huberLoss"
    [] type = "pseudoHuber" -> "pseudoHuberLoss"
    [] OTHER -> "NULL"

\* the loss at hand was created for the configured type
CreatedFor(type) == factory.made /\ factory.type = type /\ lossObj.class = ClassOf(type)

\* the last call was eval or grad on targets and predictions of one shape
CalledSameShape(op) == lcall.op = op /\ SameSize(lcall.y, lcall.y_fit)

\* E_signed = y_fit - y at position p of the last call
ESigned(p) == lcall.y_fit.d[p] - lcall.y.d[p]

\* C2: createLoss fails with an UnknownLossType error for every type that is
\* not one of the five recognized names, handing back neither a loss nor a
\* null; for a recognized name (with the hyperparameter its class reads
\* present) it returns an instance of the matching class.
C2_UnknownTypeRejected ==
  lcall.op = "createLoss" =>
    IF factory.type \in Recognized
    THEN \/ (factory.type \in {"huber", "pseudoHuber"} /\ ~factory.loss_param.hasD)
         \/ (lcall.returned /\ lossObj.class = ClassOf(factory.type))
    ELSE lcall.err = "UnknownLossType" /\ ~lcall.returned

\* C7: for every loss class, eval and grad called with y and y_fit of
\* different shapes fail with a ShapeMismatch error and return no value.
C7_MismatchedShapesRejected ==
  (lcall.op \in {"eval", "grad"} /\ ~SameSize(lcall.y, lcall.y_fit)) =>
    /\ lcall.err = "ShapeMismatch"
    /\ ~lcall.returned

\* C9: the loss createLoss returns for "squared" is the squared loss: on y,
\* y_fit of one shape, eval is the sum of (y_fit - y)^2 divided by the number
\* of rows, and grad is 2 * (y_fit - y) elementwise, of the shape of y_fit.
C9_SquaredFormulas ==
  (factory.made /\ factory.type = "squared" /\ lcall.op \in {"eval", "grad"}
     /\ SameSize(lcall.y, lcall.y_fit)) =>
    /\ lcall.returned
    /\ lcall.op = "eval" =>
         LET sq == SumSeq([k \in 1..n_elem(lcall.y) |->
                             (Lin(lcall.y_fit, k) - Lin(lcall.y, k))
                               * (Lin(lcall.y_fit, k) - Lin(lcall.y, k))])
         IN  /\ lcall.val.den > 0
             /\ lcall.val.num * lcall.y.nr = sq * lcall.val.den
    /\ lcall.op = "grad" =>
         /\ SameSize(lcall.val, lcall.y_fit)
         /\ \A p \in DOMAIN lcall.val.d : lcall.val.d[p] = 2 * ESigned(p)

\* C9 witness: the squared loss was evaluated on matrices of more than one
\* column whose predictions differ from the targets.
C9_Witness ==
  /\ CreatedFor("squared") /\ CalledSameShape("eval") /\ lcall.returned
  /\ lcall.y.nc >= 2
  /\ lcall.val.num > 0

\* C10: for the huber loss with dHuber > 0, grad is E_signed where
\* |E_signed| <= dHuber and dHuber * sign(E_signed) elsewhere, and at
\* |E_signed| = dHuber (at +dHuber and at -dHuber) the two branches agree.
C10_HuberGrad ==
  (CreatedFor("huber") /\ lossObj.dHuber > 0 /\ CalledSameShape("grad")) =>
    /\ lcall.returned
    /\ SameSize(lcall.val, lcall.y_fit)
    /\ \A p \in DOMAIN lcall.val.d :
         /\ abs(ESigned(p)) <= lossObj.dHuber => lcall.val.d[p] = ESigned(p)
         /\ abs(ESigned(p)) > lossObj.dHuber =>
              lcall.val.d[p] = lossObj.dHuber * sign(ESigned(p))
         /\ abs(ESigned(p)) = lossObj.dHuber =>
              lcall.val.d[p] = lossObj.dHuber * sign(ESigned(p))

\* C10 witness: the huber gradient was taken on a matrix with one entry at
\* E_signed = +dHuber and another at E_signed = -dHuber.
C10_Witness ==
  /\ CreatedFor("huber") /\ lossObj.dHuber > 0 /\ CalledSameShape("grad")
  /\ lcall.returned
  /\ \E p, q \in DOMAIN lcall.val.d :
       ESigned(p) = lossObj.dHuber /\ ESigned(q) = -lossObj.dHuber

====
